---- MODULE Spec2Model ----
(***************************************************************************)
(* A model of src/main.rs: the demo runner `main` and its eleven routines, *)
(* the 5-thread mutex counter, the one-task tokio runtime, and the pure    *)
(* functions calculate_length and Circle::area.                            *)
(*                                                                         *)
(* Texts are sequences of Unicode scalar values; a Rust String is the      *)
(* sequence of bytes of its UTF-8 encoding.  An f64 is a record            *)
(* [sign, m, e] standing for (-1)^sign * m * 2^e with m a 53-bit natural   *)
(* (or zero), m being held as little-endian limbs because a 53-bit         *)
(* mantissa does not fit a 32-bit integer.  Multiplication and the         *)
(* decimal conversions round to nearest, ties to even, as IEEE 754 binary64*)
(* does; exponent overflow and subnormals are out of the modelled range.   *)
(* Standard output is a sequence of lines; a write to it can fail or be    *)
(* cut short, and println! then panics, or the signal for a file at its    *)
(* size limit kills the process.  An allocation that finds no memory       *)
(* (other than read_to_string's, which returns the error) or a thread that *)
(* cannot start aborts the process.                                        *)
(***************************************************************************)
EXTENDS Integers, Sequences, FiniteSets, TLC

(* ---------------------------------------------------------------- bounds *)
MaxTextLen == 3
MaxArgs == 2
MaxRadiusQ == 24

(* ----------------------------------------------------- program constants *)
NumWorkers == 5
SleepSecs == 2

(* ------------------------------------------------- naturals of any width *)
\* A natural is the sequence of its limbs, least significant first, without
\* leading zero limbs (<<>> is 0).  Carries are found by lookahead rather
\* than by rippling, so that only division by a small number recurses.
LimbBase == 2^14

IntBitLen(n) == Cardinality({i \in 0..30 : 2^i <= n})

LimbBits == IntBitLen(LimbBase) - 1

MaxOf(S) == CHOOSE x \in S : \A y \in S : y <= x

Zeros(n) == [i \in 1..n |-> 0]

Reverse(q) == [i \in 1..Len(q) |-> q[Len(q) + 1 - i]]

Limb(a, i) == IF i \in DOMAIN a THEN a[i] ELSE 0

BigNorm(a) ==
    LET nz == {i \in DOMAIN a : a[i] # 0}
    IN  IF nz = {} THEN <<>> ELSE SubSeq(a, 1, MaxOf(nz))

\* 0 <= n < 2^31
BigFromInt(n) ==
    BigNorm(<<n % LimbBase, (n \div LimbBase) % LimbBase,
              n \div (LimbBase * LimbBase)>>)

\* a + b; a carry enters limb i when a lower limb overflows and every limb
\* between is full
BigAdd(a, b) ==
    LET n    == (IF Len(a) > Len(b) THEN Len(a) ELSE Len(b)) + 1
        s    == [i \in 1..n |-> Limb(a, i) + Limb(b, i)]
        c(i) == \E j \in 1..(i - 1) :
                    /\ s[j] >= LimbBase
                    /\ \A k \in (j + 1)..(i - 1) : s[k] = LimbBase - 1
    IN  BigNorm([i \in 1..n |-> (s[i] + (IF c(i) THEN 1 ELSE 0)) % LimbBase])

\* a - b for a >= b; a borrow leaves limb i when a lower limb falls short
\* and every limb between is level
BigSub(a, b) ==
    LET d    == [i \in 1..Len(a) |-> a[i] - Limb(b, i)]
        w(i) == \E j \in 1..(i - 1) :
                    /\ d[j] < 0
                    /\ \A k \in (j + 1)..(i - 1) : d[k] = 0
    IN  BigNorm([i \in 1..Len(a) |->
                    (d[i] - (IF w(i) THEN 1 ELSE 0) + LimbBase) % LimbBase])

\* -1, 0, 1 as a < b, a = b, a > b
BigCmp(a, b) ==
    IF Len(a) # Len(b) THEN (IF Len(a) < Len(b) THEN -1 ELSE 1)
    ELSE LET d == {i \in DOMAIN a : a[i] # b[i]}
         IN  IF d = {} THEN 0
             ELSE IF a[MaxOf(d)] < b[MaxOf(d)] THEN -1 ELSE 1

\* the natural whose limb i is s[i], for 0 <= s[i] < 2^31: the low, middle
\* and high parts of the limbs, each a natural, added up
Carry(s) ==
    LET n   == Len(s)
        lo  == [i \in 1..n |-> s[i] % LimbBase]
        mid == [i \in 1..n |-> (s[i] \div LimbBase) % LimbBase]
        hi  == [i \in 1..n |-> s[i] \div (LimbBase * LimbBase)]
    IN  BigAdd(BigAdd(lo, <<0>> \o mid), <<0, 0>> \o hi)

\* a * k for 0 <= k <= LimbBase
BigMulSmall(a, k) == Carry([i \in 1..Len(a) |-> a[i] * k])

\* the sum of a[i] * b[j] over i + j = k + 1
RECURSIVE Column(_, _, _, _)
Column(a, b, k, i) ==
    IF i > Len(a) \/ i > k THEN 0
    ELSE (IF k + 1 - i <= Len(b) THEN a[i] * b[k + 1 - i] ELSE 0)
         + Column(a, b, k, i + 1)

\* a * b, for at most 7 limbs in the shorter of the two
BigMul(a, b) ==
    IF a = <<>> \/ b = <<>> THEN <<>>
    ELSE Carry([k \in 1..(Len(a) + Len(b) - 1) |-> Column(a, b, k, 1)])

\* the limbs of a div d from limb i down, most significant first, and then
\* a mod d; r is the remainder carried in
RECURSIVE DivFrom(_, _, _, _)
DivFrom(a, i, d, r) ==
    IF i = 0 THEN <<r>>
    ELSE LET t == r * LimbBase + a[i]
         IN  <<t \div d>> \o DivFrom(a, i - 1, d, t % d)

\* <<a div d, a mod d>> for 0 < d < 2^17
BigDivSmall(a, d) ==
    LET qr == DivFrom(a, Len(a), d, 0)
    IN  <<BigNorm(Reverse(SubSeq(qr, 1, Len(a)))), qr[Len(a) + 1]>>

\* a * 2^k
BigShl(a, k) ==
    LET j == k % LimbBits
    IN  IF a = <<>> THEN <<>>
        ELSE Zeros(k \div LimbBits)
             \o BigNorm([i \in 1..(Len(a) + 1) |->
                           ((Limb(a, i) * 2^j) % LimbBase)
                           + (Limb(a, i - 1) \div 2^(LimbBits - j))])

\* floor(a / 2^k)
BigShr(a, k) ==
    LET j == k % LimbBits
        n == Len(a) - k \div LimbBits
        t == SubSeq(a, Len(a) - n + 1, Len(a))
    IN  IF n <= 0 THEN <<>>
        ELSE BigNorm([i \in 1..n |->
                        (t[i] \div 2^j)
                        + (Limb(t, i + 1) % 2^j) * 2^(LimbBits - j)])

BigBitLen(a) ==
    IF a = <<>> THEN 0 ELSE (Len(a) - 1) * LimbBits + IntBitLen(a[Len(a)])

BigIsOdd(a) == a # <<>> /\ a[1] % 2 = 1

\* a in groups of five decimal digits, least significant first
RECURSIVE BigGroupsLE(_)
BigGroupsLE(a) ==
    IF a = <<>> THEN <<>>
    ELSE LET qr == BigDivSmall(a, 10^5) IN <<qr[2]>> \o BigGroupsLE(qr[1])

\* the decimal digits of a, most significant first (<<>> for zero)
BigDigits(a) ==
    LET g  == BigGroupsLE(a)
        ds == [j \in 1..(5 * Len(g)) |->
                 (g[Len(g) - ((j - 1) \div 5)] \div 10^(4 - ((j - 1) % 5))) % 10]
        nz == {j \in DOMAIN ds : ds[j] # 0}
    IN  IF nz = {} THEN <<>>
        ELSE SubSeq(ds, CHOOSE j \in nz : \A k \in nz : j <= k, Len(ds))

\* whether the k lowest bits of a are all zero
BigLowZero(a, k) ==
    /\ \A i \in 1..(k \div LimbBits) : Limb(a, i) = 0
    /\ Limb(a, k \div LimbBits + 1) % 2^(k % LimbBits) = 0

\* floor(a / 2^k) rounded to nearest, ties to even; sticky says that bits
\* below a were already lost
BigShrRound(a, k, sticky) ==
    IF k = 0 THEN a
    ELSE LET g  == BigShr(a, k - 1)
             q  == BigShr(g, 1)
             up == BigIsOdd(g)
                   /\ (sticky \/ ~BigLowZero(a, k - 1) \/ BigIsOdd(q))
         IN  IF up THEN BigAdd(q, <<1>>) ELSE q

(* ------------------------------------------------------------------- f64 *)
MantBits == 53

F64Zero(sign) == [sign |-> sign, m |-> <<>>, e |-> 0]

\* the f64 nearest to (-1)^sign * n * 2^e (n any natural)
F64Round(sign, n, e, sticky) ==
    IF n = <<>> THEN F64Zero(sign)
    ELSE LET len == BigBitLen(n)
         IN  IF len <= MantBits
             THEN [sign |-> sign, m |-> BigShl(n, MantBits - len),
                   e |-> e - (MantBits - len)]
             ELSE LET k == len - MantBits
                      q == BigShrRound(n, k, sticky)
                  IN  IF BigBitLen(q) > MantBits
                      THEN [sign |-> sign, m |-> BigShr(q, 1), e |-> e + k + 1]
                      ELSE [sign |-> sign, m |-> q, e |-> e + k]

\* x * y on f64
F64Mul(x, y) ==
    F64Round((x.sign + y.sign) % 2, BigMul(x.m, y.m), x.e + y.e, FALSE)

\* n * 2^e for an integer n, which is exact
F64FromInt(n, e) ==
    F64Round(IF n < 0 THEN 1 ELSE 0, BigFromInt(IF n < 0 THEN -n ELSE n), e, FALSE)

\* a / 10^scale, with whether a remainder was dropped
RECURSIVE DivPow10(_, _, _)
DivPow10(a, scale, sticky) ==
    IF scale = 0 THEN <<a, sticky>>
    ELSE LET n  == IF scale > 5 THEN 5 ELSE scale
             qr == BigDivSmall(a, 10^n)
         IN  DivPow10(qr[1], scale - n, sticky \/ qr[2] # 0)

\* the f64 a decimal literal denotes: digits / 10^scale, 0 <= digits < 2^31
F64FromDecimal(digits, scale) ==
    LET s  == 64 + 4 * scale
        qs == DivPow10(BigShl(BigFromInt(digits), s), scale, FALSE)
    IN  F64Round(0, qs[1], 0 - s, qs[2])

DigitChar(d) == <<"0", "1", "2", "3", "4", "5", "6", "7", "8", "9">>[d + 1]

DigitChars(ds) == [i \in 1..Len(ds) |-> DigitChar(ds[i])]

\* format!("{:.2}", x): the characters of x rounded to two decimals
F64Fixed2(x) ==
    LET h   == BigMulSmall(x.m, 100)
        hh  == IF x.e >= 0 THEN BigShl(h, x.e) ELSE BigShrRound(h, 0 - x.e, FALSE)
        ds  == BigDigits(hh)
        pad == Zeros(IF Len(ds) < 3 THEN 3 - Len(ds) ELSE 0) \o ds
        n   == Len(pad)
    IN  (IF x.sign = 1 THEN <<"-">> ELSE <<>>)
        \o DigitChars(SubSeq(pad, 1, n - 2)) \o <<".">>
        \o DigitChars(SubSeq(pad, n - 1, n))

(* ----------------------------------------------------------------- UTF-8 *)
\* the bytes of one Unicode scalar value
Utf8Encode(cp) ==
    IF cp < 128 THEN <<cp>>
    ELSE IF cp < 2048 THEN <<192 + (cp \div 64), 128 + (cp % 64)>>
    ELSE IF cp < 65536
         THEN <<224 + (cp \div 4096), 128 + ((cp \div 64) % 64), 128 + (cp % 64)>>
    ELSE <<240 + (cp \div 262144), 128 + ((cp \div 4096) % 64),
           128 + ((cp \div 64) % 64), 128 + (cp % 64)>>

\* String::from of a text: its UTF-8 bytes
RECURSIVE StringFrom(_)
StringFrom(t) ==
    IF t = <<>> THEN <<>> ELSE Utf8Encode(Head(t)) \o StringFrom(Tail(t))

IsCont(b) == 128 <= b /\ b <= 191

\* whether a byte string is well-formed UTF-8 (OsString::into_string is Ok)
RECURSIVE Utf8Valid(_)
Utf8Valid(bs) ==
    IF bs = <<>> THEN TRUE
    ELSE LET b == Head(bs)
             n == Len(bs)
         IN  IF b < 128 THEN Utf8Valid(Tail(bs))
             ELSE IF 194 <= b /\ b <= 223
                  THEN n >= 2 /\ IsCont(bs[2]) /\ Utf8Valid(SubSeq(bs, 3, n))
             ELSE IF 224 <= b /\ b <= 239
                  THEN /\ n >= 3
                       /\ IsCont(bs[2]) /\ IsCont(bs[3])
                       /\ (b = 224 => bs[2] >= 160)
                       /\ (b = 237 => bs[2] <= 159)
                       /\ Utf8Valid(SubSeq(bs, 4, n))
             ELSE IF 240 <= b /\ b <= 244
                  THEN /\ n >= 4
                       /\ IsCont(bs[2]) /\ IsCont(bs[3]) /\ IsCont(bs[4])
                       /\ (b = 240 => bs[2] >= 144)
                       /\ (b = 244 => bs[2] <= 143)
                       /\ Utf8Valid(SubSeq(bs, 5, n))
             ELSE FALSE

\* s.chars().count(): the bytes that start a character
RECURSIVE CharCount(_)
CharCount(bs) ==
    IF bs = <<>> THEN 0
    ELSE (IF IsCont(Head(bs)) THEN 0 ELSE 1) + CharCount(Tail(bs))

SeqsUpTo(S, n) == UNION {[1..k -> S] : k \in 0..n}

(* ----------------------------------------------------------------- state *)
VARIABLES
    status,        \* "running", "exited" (main returned), "panicked",
                   \* "aborted" (SIGABRT)
    pc,            \* where the main thread is
    callIdx,       \* which call of main's body comes next
    started,       \* the routines entered, in order
    returned,      \* the routines that returned, in order
    out,           \* standard output, one entry per println!
    owned_string,  \* ownership_and_borrowing: the String's bytes
    length,        \* ownership_and_borrowing: calculate_length's result
    circle,        \* generics_and_traits: the Circle
    area_val,      \* generics_and_traits: circle.area()
    rt,            \* async_runtime_demo: "none", "running", "dropped"
    task,          \* async_task: "none", "spawned", "sleeping", "finished",
                   \* "panicked"
    nTasks,        \* tasks spawned on the runtime
    sleepLeft,     \* seconds left of async_task's sleep
    counter,       \* the integer inside the Mutex
    holders,       \* the threads holding a MutexGuard (0 is main)
    wpc,           \* each worker thread's position
    wtmp,          \* each worker's loaded value during *num += 1
    handles,       \* the JoinHandles pushed, in order
    nJoined,       \* how many handles the join loop has joined
    acquired,      \* per worker, lock acquisitions so far
    cycles,        \* per worker, completed lock/increment/unlock cycles
    read_result,   \* error_handling: what read_to_string returned
    argv,          \* the process's arguments, as the OS holds them
    args,          \* command_line_demo: the collected Vec<String>
    text,          \* unit harness: the text calculate_length is applied to
    radiusQ,       \* unit harness: the radius, in quarters
    hpc            \* unit harness: position

ctl  == <<status, pc, callIdx, started, returned>>
r1v  == <<owned_string, length>>
r2v  == <<circle, area_val>>
r6v  == <<rt, task, nTasks, sleepLeft>>
r7v  == <<counter, holders, wpc, wtmp, handles, nJoined, acquired, cycles>>
hv   == <<text, radiusQ, hpc>>
r4v  == <<read_result>>
r11v == <<argv, args>>
vars == <<ctl, out, r1v, r2v, r4v, r6v, r7v, r11v, hv>>

Workers == 1..NumWorkers
MainThread == 0

\* a line of output; `whole` is FALSE for a line of which only a part (some
\* of its bytes, not all) reached standard output; `inlined` is TRUE when
\* the arguments are literals of the source
Line(fmt, a) == [fmt |-> fmt, args |-> a, whole |-> TRUE, inlined |-> FALSE]

Fragment(l) == [l EXCEPT !.whole = FALSE]

\* A println! whose line is one static piece hands it to the write at once:
\* one without arguments, or one whose arguments are literals, which
\* format_args! puts into the format string as it compiles.  One with
\* arguments evaluated as the program runs formats the line piece by piece
\* into the buffer of standard output, which is flushed at the newline; what
\* a failed flush leaves in the buffer is written once more as the process
\* exits.
Buffered(l) == l.args # <<>> /\ ~l.inlined

\* a println! whose write fails panics: nothing of the line is on standard
\* output ("panic"), or a part of it ("cut"), or, for a buffered line that
\* the flush at exit gets out, all of it ("late")
Panics == {"panic", "cut", "late"}

\* standard output is a file at its size limit: the write raises SIGXFSZ,
\* which kills the process, nothing of the line being written ("kill") or a
\* part of it ("killcut")
Kills == {"kill", "killcut"}

\* how a run of println!s can go: all lines are written, or n are and the
\* write of the next fails
Written(lines) ==
    {[n |-> Len(lines), how |-> "return"]}
    \cup {[n |-> k, how |-> h] :
             k \in 0..(Len(lines) - 1), h \in {"panic", "cut"} \cup Kills}
    \cup {[n |-> k, how |-> "late"] :
             k \in {j \in 0..(Len(lines) - 1) : Buffered(lines[j + 1])}}

\* println! for each of `lines` in turn, going as e says: what is on standard
\* output when the call has returned or the process has ended
println(lines, e) ==
    out' = out \o SubSeq(lines, 1, e.n)
               \o (IF e.how \in {"cut", "killcut"} THEN <<Fragment(lines[e.n + 1])>>
                   ELSE IF e.how = "late" THEN <<lines[e.n + 1]>>
                   ELSE <<>>)

(* ------------------------------------------------------ main's call list *)
RoutinesAsyncLast ==
    <<"ownership_and_borrowing", "generics_and_traits",
      "enums_and_pattern_matching", "error_handling",
      "iterators_and_closures", "multithreading_with_mutex",
      "async_runtime_demo", "smart_pointers_demo", "collections_demo",
      "macros_demo", "command_line_demo">>

\* the calls of main's body, in source order
Routines ==
    <<"ownership_and_borrowing", "generics_and_traits",
      "enums_and_pattern_matching", "error_handling",
      "iterators_and_closures", "async_runtime_demo",
      "multithreading_with_mutex", "smart_pointers_demo", "collections_demo",
      "macros_demo", "command_line_demo">>

Calling(name) ==
    /\ status = "running"
    /\ pc = "main"
    /\ callIdx <= Len(Routines)
    /\ Routines[callIdx] = name

Enter(name) == started' = Append(started, name)

Return(name) ==
    /\ returned' = Append(returned, name)
    /\ callIdx' = callIdx + 1
    /\ pc' = "main"

\* a panic on the main thread: the process ends with exit code 101
Panic == status' = "panicked"

\* the panic of a println! on the main thread
PrintPanic == Panic /\ pc' = "println"

\* SIGXFSZ, whichever thread was writing: the process is killed
Kill == status' = "killed"

\* a println! on the main thread that did not return
PrintEnds(e) == IF e.how \in Kills THEN Kill /\ pc' = "println" ELSE PrintPanic

\* an allocation finds no memory, or a thread fails as it starts: the
\* process is killed by SIGABRT
Abort == status' = "aborted"

\* Written(lines), and the allocations of a routine that abort: allocs
\* holds, for each allocation, the number of lines printed before it
Endings(lines, allocs) ==
    Written(lines) \cup {[n |-> k, how |-> "abort"] : k \in allocs}

\* a routine that runs on the main thread from its call to its return, or to
\* the println! that ends the process, or to an abort
Whole(name, lines, e) ==
    /\ Calling(name) /\ Enter(name)
    /\ println(lines, e)
    /\ IF e.how = "return" THEN Return(name) /\ status' = status
       ELSE IF e.how = "abort" THEN Abort /\ pc' = "alloc" /\ UNCHANGED <<callIdx, returned>>
       ELSE PrintEnds(e) /\ UNCHANGED <<callIdx, returned>>

\* whether the statements after the first k println!s were reached and done
Past(e, k) == e.n >= k /\ ~(e.how = "abort" /\ e.n = k)

\* 0, 101, or 128 + the signal as a shell shows a process killed by SIGABRT
\* (6) or SIGXFSZ (25)
ExitCode ==
    IF status = "exited" THEN 0
    ELSE IF status = "panicked" THEN 101
    ELSE IF status = "aborted" THEN 134
    ELSE IF status = "killed" THEN 153
    ELSE -1

\* the first println! also allocates the buffer of standard output
main_start ==
    /\ status = "running" /\ pc = "start"
    /\ \E e \in Endings(<<Line("--- Welcome to the Full Rust Demo ---", <<>>)>>, {0}) :
          /\ println(<<Line("--- Welcome to the Full Rust Demo ---", <<>>)>>, e)
          /\ IF e.how = "return" THEN pc' = "main" /\ status' = status
             ELSE IF e.how = "abort" THEN Abort /\ pc' = "alloc"
             ELSE PrintEnds(e)
    /\ UNCHANGED <<callIdx, started, returned, r1v, r2v, r4v, r6v, r7v, r11v, hv>>

main_exit ==
    /\ status = "running" /\ pc = "main" /\ callIdx = Len(Routines) + 1
    /\ status' = "exited"
    /\ UNCHANGED <<pc, callIdx, started, returned, out,
                   r1v, r2v, r4v, r6v, r7v, r11v, hv>>

(* ------------------------------------------ 1: ownership and borrowing *)
OwnedText == <<73, 32, 97, 109, 32, 111, 119, 110, 101, 100, 33>>
RustText == <<82, 117, 115, 116>>

calculate_length_chars(s) == CharCount(s)

calculate_length(s) == Len(s)

ownership_and_borrowing ==
    LET s == StringFrom(OwnedText)
        l == calculate_length(s)
        lines == <<Line("\n--- Ownership and Borrowing ---", <<>>),
                   Line("Length of '{}' is {}", <<s, l>>)>>
    IN  \E e \in Endings(lines, {1}) :
           /\ Whole("ownership_and_borrowing", lines, e)
           /\ owned_string' = (IF Past(e, 1) THEN s ELSE owned_string)
           /\ length' = (IF Past(e, 1) THEN l ELSE length)
           /\ UNCHANGED <<r2v, r4v, r6v, r7v, r11v, hv>>

(* ---------------------------------------------- 2: generics and traits *)
\* 3.14159265
PI_precise == F64FromDecimal(314159265, 8)

\* const PI: f64 = 3.14159;
PI == F64FromDecimal(314159, 5)

area(c) == F64Mul(F64Mul(PI, c.radius), c.radius)

generics_and_traits ==
    LET c == [radius |-> F64FromInt(5, 0)]
        lines == <<Line("\n--- Generics and Traits ---", <<>>),
                   Line("Point coordinates: ({}, {})", <<10, 20>>),
                   Line("Circle area: {:.2}", <<F64Fixed2(area(c))>>)>>
    IN  \E e \in Endings(lines, {}) :
           /\ Whole("generics_and_traits", lines, e)
           /\ circle' = (IF Past(e, 2) THEN c ELSE circle)
           /\ area_val' = (IF Past(e, 2) THEN area(c) ELSE area_val)
           /\ UNCHANGED <<r1v, r4v, r6v, r7v, r11v, hv>>

(* --------------------------------------- 3: enums and pattern matching *)
MatchMessage(message) ==
    IF message.tag = "Hello"
    THEN Line("Received message: {}", <<message.msg>>)
    ELSE Line("Quitting", <<>>)

enums_and_pattern_matching ==
    LET lines == <<Line("\n--- Enums and Pattern Matching ---", <<>>),
                   MatchMessage([tag |-> "Hello", msg |-> "Rust"])>>
    IN  \E e \in Endings(lines, {1}) :
           /\ Whole("enums_and_pattern_matching", lines, e)
           /\ UNCHANGED <<r1v, r2v, r4v, r6v, r7v, r11v, hv>>

(* --------------------------------------------------- 4: error handling *)
\* what std::fs::read_to_string("nonexistent_file.txt") can return
\* (OutOfMemory: the buffer for the file's contents could not be reserved)
FileResults ==
    {[ok |-> TRUE, val |-> c] : c \in {"", "some text"}}
    \cup {[ok |-> FALSE, val |-> e] :
             e \in {"NotFound", "PermissionDenied", "InvalidData", "OutOfMemory"}}

\* the errors that carry an OS error code: formatting one allocates the
\* text of its description
OsErrors == {"NotFound", "PermissionDenied"}

\* the allocations of error_handling that abort, by the lines printed before
ReadAllocs(res) == IF ~res.ok /\ res.val \in OsErrors THEN {1} ELSE {}

ReadOutcomeSilent(res) ==
    IF res.ok THEN <<Line("File content: {}", <<res.val>>)>> ELSE <<>>

\* the two arms of the match on the read's Result: the line each prints
ReadOutcome(res) ==
    IF res.ok THEN <<Line("File content: {}", <<res.val>>)>>
    ELSE <<Line("Error reading file: {}", <<res.val>>)>>

error_handling_unwrap ==
    \E res \in FileResults :
       LET lines == <<Line("\n--- Error Handling ---", <<>>)>>
                    \o (IF res.ok THEN ReadOutcome(res) ELSE <<>>)
       IN  \E e \in Endings(lines, ReadAllocs(res)) :
              /\ Calling("error_handling") /\ Enter("error_handling")
              /\ println(lines, e)
              /\ read_result' = (IF e.n >= 1 THEN res ELSE read_result)
              /\ IF e.how = "return" /\ res.ok
                 THEN Return("error_handling") /\ status' = status
                 ELSE IF e.how = "abort"
                 THEN Abort /\ pc' = "alloc" /\ UNCHANGED <<callIdx, returned>>
                 ELSE IF e.how = "return"
                 THEN Panic /\ pc' = "r4_read" /\ UNCHANGED <<callIdx, returned>>
                 ELSE PrintEnds(e) /\ UNCHANGED <<callIdx, returned>>
              /\ UNCHANGED <<r1v, r2v, r6v, r7v, r11v, hv>>

\* the banner, the read, and the arm of the match that the Result selects
error_handling ==
    \E res \in FileResults :
       LET lines == <<Line("\n--- Error Handling ---", <<>>)>> \o ReadOutcome(res)
       IN  \E e \in Endings(lines, ReadAllocs(res)) :
              /\ Whole("error_handling", lines, e)
              /\ read_result' = (IF e.n >= 1 THEN res ELSE read_result)
              /\ UNCHANGED <<r1v, r2v, r6v, r7v, r11v, hv>>

(* ------------------------------------------ 5: iterators and closures *)
RECURSIVE MapDouble(_)
MapDouble(v) == IF v = <<>> THEN <<>> ELSE <<Head(v) * 2>> \o MapDouble(Tail(v))

RECURSIVE FilterEven(_)
FilterEven(v) ==
    IF v = <<>> THEN <<>>
    ELSE (IF Head(v) % 2 = 0 THEN <<Head(v)>> ELSE <<>>) \o FilterEven(Tail(v))

iterators_and_closures ==
    LET numbers == <<1, 2, 3, 4>>
        lines == <<Line("\n--- Iterators and Closures ---", <<>>),
                   Line("Doubled numbers: {:?}", <<MapDouble(numbers)>>),
                   Line("Even numbers: {:?}", <<FilterEven(numbers)>>)>>
    IN  \E e \in Endings(lines, {1, 2}) :
           /\ Whole("iterators_and_closures", lines, e)
           /\ UNCHANGED <<r1v, r2v, r4v, r6v, r7v, r11v, hv>>

(* ------------------------------------------------ 6: async programming *)
async_runtime_demo ==
    /\ Calling("async_runtime_demo") /\ Enter("async_runtime_demo")
    /\ \E e \in Written(<<Line("\n--- Async Programming ---", <<>>)>>) :
          /\ println(<<Line("\n--- Async Programming ---", <<>>)>>, e)
          /\ IF e.how = "return" THEN pc' = "r6_new" /\ status' = status
             ELSE PrintEnds(e)
    /\ UNCHANGED <<callIdx, returned, r1v, r2v, r4v, r6v, r7v, r11v, hv>>

\* tokio::runtime::Runtime::new().unwrap(): Ok, or an io::Error and a panic
runtime_new ==
    /\ status = "running" /\ pc = "r6_new"
    /\ \/ /\ rt' = "running"
          /\ pc' = "r6_spawn"
          /\ status' = status
       \/ /\ Panic
          /\ UNCHANGED <<rt, pc>>
    /\ UNCHANGED <<callIdx, started, returned, out, r1v, r2v, r4v,
                   task, nTasks, sleepLeft, r7v, r11v, hv>>

\* block_on(async { let handle = tokio::spawn(async_task()); ... })
tokio_spawn ==
    /\ status = "running" /\ pc = "r6_spawn"
    /\ task' = "spawned"
    /\ nTasks' = nTasks + 1
    /\ pc' = "r6_await"
    /\ UNCHANGED <<status, callIdx, started, returned, out, r1v, r2v, r4v,
                   rt, sleepLeft, r7v, r11v, hv>>

\* async_task up to its sleep().await; a panic of the task is caught by the
\* runtime and kept for the JoinHandle
async_task_start ==
    /\ status = "running" /\ rt = "running" /\ task = "spawned"
    /\ \E e \in Written(<<Line("Async task started...", <<>>)>>) :
          /\ println(<<Line("Async task started...", <<>>)>>, e)
          /\ IF e.how = "return"
             THEN task' = "sleeping" /\ sleepLeft' = SleepSecs /\ status' = status
             ELSE IF e.how \in Kills
             THEN Kill /\ UNCHANGED <<task, sleepLeft>>
             ELSE task' = "panicked" /\ sleepLeft' = sleepLeft /\ status' = status
    /\ UNCHANGED <<pc, callIdx, started, returned,
                   r1v, r2v, r4v, rt, nTasks, r7v, r11v, hv>>

\* a second of the sleep passes
sleep_tick ==
    /\ status = "running" /\ rt = "running" /\ task = "sleeping"
    /\ sleepLeft > 0
    /\ sleepLeft' = sleepLeft - 1
    /\ UNCHANGED <<ctl, out, r1v, r2v, r4v, rt, task, nTasks, r7v, r11v, hv>>

\* async_task after the sleep
async_task_finish ==
    /\ status = "running" /\ rt = "running" /\ task = "sleeping"
    /\ sleepLeft = 0
    /\ \E e \in Written(<<Line("Async task finished!", <<>>)>>) :
          /\ println(<<Line("Async task finished!", <<>>)>>, e)
          /\ IF e.how = "return" THEN task' = "finished" /\ status' = status
             ELSE IF e.how \in Kills THEN Kill /\ task' = task
             ELSE task' = "panicked" /\ status' = status
    /\ UNCHANGED <<pc, callIdx, started, returned,
                   r1v, r2v, r4v, rt, nTasks, sleepLeft, r7v, r11v, hv>>

TaskJoinedEarly == TRUE

\* handle.await is ready once the task has completed or panicked
TaskJoined == task \in {"finished", "panicked"}

\* handle.await.unwrap(): Ok, then block_on returns, the runtime is dropped
\* and the routine returns; or the task's panic, and unwrap panics
async_runtime_demo_return ==
    /\ status = "running" /\ pc = "r6_await"
    /\ TaskJoined
    /\ rt' = "dropped"
    /\ IF task = "panicked"
       THEN Panic /\ UNCHANGED <<pc, callIdx, returned>>
       ELSE Return("async_runtime_demo") /\ status' = status
    /\ UNCHANGED <<started, out, r1v, r2v, r4v,
                   task, nTasks, sleepLeft, r7v, r11v, hv>>

(* ------------------------------------ 7: multithreading with a mutex *)
multithreading_with_mutex ==
    /\ Calling("multithreading_with_mutex") /\ Enter("multithreading_with_mutex")
    /\ \E e \in Written(<<Line("\n--- Multithreading with Mutex ---", <<>>)>>) :
          /\ println(<<Line("\n--- Multithreading with Mutex ---", <<>>)>>, e)
          /\ IF e.how = "return"
             THEN /\ counter' = 0
                  /\ handles' = <<>>
                  /\ pc' = "r7_spawn"
                  /\ status' = status
             ELSE PrintEnds(e) /\ UNCHANGED <<counter, handles>>
    /\ UNCHANGED <<callIdx, returned, r1v, r2v, r4v, r6v,
                   holders, wpc, wtmp, nJoined, acquired, cycles, r11v, hv>>

\* one turn of `for _ in 0..5`: thread::spawn, which panics when the OS
\* cannot create the thread, then handles.push
thread_spawn ==
    /\ status = "running" /\ pc = "r7_spawn"
    /\ LET w == Len(handles) + 1
       IN  \/ /\ wpc' = [wpc EXCEPT ![w] = "lock"]
              /\ handles' = Append(handles, w)
              /\ pc' = IF w = NumWorkers THEN "r7_join" ELSE "r7_spawn"
              /\ status' = status
           \/ /\ Panic
              /\ UNCHANGED <<wpc, handles, pc>>
    /\ UNCHANGED <<callIdx, started, returned, out, r1v, r2v, r4v, r6v,
                   counter, holders, wtmp, nJoined, acquired, cycles, r11v, hv>>

MutexFreeNoExclusion == TRUE

\* Mutex::lock returns only when no guard is alive
MutexFree == holders = {}

\* let mut num = counter.lock().unwrap();
worker_lock(w) ==
    /\ status = "running" /\ wpc[w] = "lock"
    /\ MutexFree
    /\ holders' = holders \cup {w}
    /\ acquired' = [acquired EXCEPT ![w] = @ + 1]
    /\ wpc' = [wpc EXCEPT ![w] = "load"]
    /\ UNCHANGED <<ctl, out, r1v, r2v, r4v, r6v, counter, wtmp, handles, nJoined,
                   cycles, r11v, hv>>

worker_load_unguarded(w) ==
    /\ status = "running" /\ wpc[w] = "load"
    /\ wtmp' = [wtmp EXCEPT ![w] = counter]
    /\ holders' = holders \ {w}
    /\ wpc' = [wpc EXCEPT ![w] = "store"]
    /\ UNCHANGED <<ctl, out, r1v, r2v, r4v, r6v, counter, handles, nJoined,
                   acquired, cycles, r11v, hv>>

\* *num += 1, the load
worker_load(w) ==
    /\ status = "running" /\ wpc[w] = "load"
    /\ wtmp' = [wtmp EXCEPT ![w] = counter]
    /\ wpc' = [wpc EXCEPT ![w] = "store"]
    /\ UNCHANGED <<ctl, out, r1v, r2v, r4v, r6v, counter, holders, handles, nJoined,
                   acquired, cycles, r11v, hv>>

\* *num += 1, the store
worker_store(w) ==
    /\ status = "running" /\ wpc[w] = "store"
    /\ counter' = wtmp[w] + 1
    /\ wpc' = [wpc EXCEPT ![w] = "unlock"]
    /\ UNCHANGED <<ctl, out, r1v, r2v, r4v, r6v, holders, wtmp, handles, nJoined,
                   acquired, cycles, r11v, hv>>

\* the closure ends: the guard is dropped and the thread finishes
worker_unlock(w) ==
    /\ status = "running" /\ wpc[w] = "unlock"
    /\ holders' = holders \ {w}
    /\ cycles' = [cycles EXCEPT ![w] = @ + 1]
    /\ wtmp' = [wtmp EXCEPT ![w] = 0]
    /\ wpc' = [wpc EXCEPT ![w] = "done"]
    /\ UNCHANGED <<ctl, out, r1v, r2v, r4v, r6v, counter, handles, nJoined,
                   acquired, r11v, hv>>

JoinableAlways(h) == TRUE

\* JoinHandle::join returns once the thread has finished
Joinable(h) == wpc[h] = "done"

\* one turn of `for handle in handles`: handle.join().unwrap()
thread_join ==
    /\ status = "running" /\ pc = "r7_join"
    /\ Joinable(handles[nJoined + 1])
    /\ nJoined' = nJoined + 1
    /\ pc' = IF nJoined' = Len(handles) THEN "r7_lock" ELSE "r7_join"
    /\ UNCHANGED <<status, callIdx, started, returned, out, r1v, r2v, r4v, r6v,
                   counter, holders, wpc, wtmp, handles, acquired, cycles, r11v, hv>>

\* counter.lock().unwrap() of the final println!
final_lock ==
    /\ status = "running" /\ pc = "r7_lock"
    /\ MutexFree
    /\ holders' = holders \cup {MainThread}
    /\ pc' = "r7_print"
    /\ UNCHANGED <<status, callIdx, started, returned, out, r1v, r2v, r4v, r6v,
                   counter, wpc, wtmp, handles, nJoined, acquired, cycles, r11v, hv>>

\* the println! reads through the guard, the guard is dropped at the end of
\* the statement (or as the panic unwinds, or with the process), and the
\* routine returns
final_print ==
    /\ status = "running" /\ pc = "r7_print"
    /\ \E e \in Written(<<Line("Counter value: {}", <<counter>>)>>) :
          /\ println(<<Line("Counter value: {}", <<counter>>)>>, e)
          /\ IF e.how = "return"
             THEN Return("multithreading_with_mutex") /\ status' = status
             ELSE PrintEnds(e) /\ UNCHANGED <<callIdx, returned>>
    /\ holders' = holders \ {MainThread}
    /\ UNCHANGED <<started, r1v, r2v, r4v, r6v,
                   counter, wpc, wtmp, handles, nJoined, acquired, cycles, r11v, hv>>

\* Memory runs out while the runtime is being built or is running (its
\* worker threads start, the task and its timer are allocated), or while
\* routine 7 allocates and its threads start.
Allocating ==
    \/ pc = "r6_new"
    \/ rt = "running"
    \/ pc = "r7_spawn"
    \/ \E w \in Workers : wpc[w] = "lock"

alloc_abort ==
    /\ status = "running"
    /\ Allocating
    /\ Abort
    /\ UNCHANGED <<pc, callIdx, started, returned, out,
                   r1v, r2v, r4v, r6v, r7v, r11v, hv>>

(* --------------------------------------------------- 8: smart pointers *)
smart_pointers_demo ==
    LET lines == <<Line("\n--- Smart Pointers ---", <<>>),
                   Line("Boxed value: {}", <<42>>),
                   Line("RC value: {}", <<"Shared">>)>>
    IN  \E e \in Endings(lines, {1, 2}) :
           /\ Whole("smart_pointers_demo", lines, e)
           /\ UNCHANGED <<r1v, r2v, r4v, r6v, r7v, r11v, hv>>

(* ------------------------------------------------------ 9: collections *)
\* the line the loop body prints for each pair
PrintPairs(pairs) == [i \in 1..Len(pairs) |-> Line("{}: {}", pairs[i])]

\* a HashMap iterates in an order of its own
collections_demo ==
    LET hashmap == {<<"Key1", 100>>, <<"Key2", 200>>}
    IN  \E order \in [1..Cardinality(hashmap) -> hashmap] :
           LET lines == <<Line("\n--- Collections ---", <<>>)>> \o PrintPairs(order)
           IN  /\ \A i, j \in DOMAIN order : i # j => order[i] # order[j]
               /\ \E e \in Endings(lines, {1}) : Whole("collections_demo", lines, e)
               /\ UNCHANGED <<r1v, r2v, r4v, r6v, r7v, r11v, hv>>

(* ----------------------------------------------------------- 10: macros *)
\* custom_macro!(msg) for a literal msg, as macros_demo calls it
custom_macro(msg) ==
    [Line("Custom macro says: {}", <<msg>>) EXCEPT !.inlined = TRUE]

macros_demo ==
    LET lines == <<Line("\n--- Macros ---", <<>>),
                   custom_macro("Hello from a macro!")>>
    IN  \E e \in Endings(lines, {}) :
           /\ Whole("macros_demo", lines, e)
           /\ UNCHANGED <<r1v, r2v, r4v, r6v, r7v, r11v, hv>>

(* ------------------------------------------- 11: command-line arguments *)
\* the name the process is started under: "p", or a byte that is not UTF-8
ProgNames == {<<112>>, <<195>>}

\* arguments: "", "a", "ab", U+00E9, and the two bytes of U+00E9 each alone,
\* which is not UTF-8
ArgStrings == {<<>>, <<97>>, <<97, 98>>, <<195, 169>>, <<195>>, <<169>>}

\* what the process can be started with: the program name, then arguments
ArgVectors ==
    {<<p>> \o a : p \in ProgNames, a \in SeqsUpTo(ArgStrings, MaxArgs)}

\* env::args() panics at an element, the name included, that is not valid
\* Unicode
ArgsDecodable(av) == \A i \in DOMAIN av : Utf8Valid(av[i])

EchoedWithName(a) == a

\* &args[1..]
Echoed(a) == SubSeq(a, 2, Len(a))

\* The argument vector is fixed when the process starts; nothing reads it
\* before env::args().collect() here, and the model draws it as that ends.
command_line_demo ==
    /\ Calling("command_line_demo") /\ Enter("command_line_demo")
    /\ \E av \in ArgVectors :
          LET lines == <<Line("\n--- Command-Line Arguments ---", <<>>)>>
                       \o (IF ~ArgsDecodable(av) THEN <<>>
                           ELSE IF Len(av) > 1
                           THEN <<Line("Arguments: {:?}", <<Echoed(av)>>)>>
                           ELSE <<Line("No arguments provided.", <<>>)>>)
          IN  \E e \in Endings(lines, {1}) :
                 /\ println(lines, e)
                 /\ argv' = (IF Past(e, 1) THEN av ELSE argv)
                 /\ args' = (IF Past(e, 1) /\ ArgsDecodable(av) THEN av ELSE args)
                 /\ IF e.how = "abort"
                    THEN Abort /\ pc' = "alloc" /\ UNCHANGED <<callIdx, returned>>
                    ELSE IF e.how # "return"
                    THEN PrintEnds(e) /\ UNCHANGED <<callIdx, returned>>
                    ELSE IF ArgsDecodable(av)
                    THEN Return("command_line_demo") /\ status' = status
                    ELSE Panic /\ pc' = "r11_args" /\ UNCHANGED <<callIdx, returned>>
    /\ UNCHANGED <<r1v, r2v, r4v, r6v, r7v, hv>>

(* ----------------------------------------------------------- the program *)
ProgramInit ==
    /\ status = "running" /\ pc = "start" /\ callIdx = 1
    /\ started = <<>> /\ returned = <<>> /\ out = <<>>
    /\ owned_string = <<>> /\ length = 0
    /\ circle = [radius |-> F64Zero(0)] /\ area_val = F64Zero(0)
    /\ rt = "none" /\ task = "none" /\ nTasks = 0 /\ sleepLeft = 0
    /\ counter = 0 /\ holders = {}
    /\ wpc = [w \in Workers |-> "unspawned"]
    /\ wtmp = [w \in Workers |-> 0]
    /\ handles = <<>> /\ nJoined = 0
    /\ acquired = [w \in Workers |-> 0]
    /\ cycles = [w \in Workers |-> 0]
    /\ read_result = [ok |-> FALSE, val |-> "not read"]
    /\ argv = <<>> /\ args = <<>>

Init == ProgramInit /\ text = <<>> /\ radiusQ = 0 /\ hpc = "off"

Next ==
    \/ main_start
    \/ ownership_and_borrowing
    \/ generics_and_traits
    \/ enums_and_pattern_matching
    \/ error_handling
    \/ iterators_and_closures
    \/ async_runtime_demo
    \/ runtime_new
    \/ tokio_spawn
    \/ async_task_start
    \/ sleep_tick
    \/ async_task_finish
    \/ async_runtime_demo_return
    \/ multithreading_with_mutex
    \/ thread_spawn
    \/ \E w \in Workers : worker_lock(w)
    \/ \E w \in Workers : worker_load(w)
    \/ \E w \in Workers : worker_store(w)
    \/ \E w \in Workers : worker_unlock(w)
    \/ thread_join
    \/ final_lock
    \/ final_print
    \/ alloc_abort
    \/ smart_pointers_demo
    \/ collections_demo
    \/ macros_demo
    \/ command_line_demo
    \/ main_exit

Spec == Init /\ [][Next]_vars

(* ------------------------------------------- calculate_length, any text *)
\* ownership_and_borrowing's three statements (and test_calculate_length's
\* two) with the text left open
CodePoints == {82, 233, 8364, 128512}
Texts == SeqsUpTo(CodePoints, MaxTextLen) \cup {RustText, OwnedText}

InitLength == ProgramInit /\ text \in Texts /\ radiusQ = 0 /\ hpc = "new"

\* let owned_string = String::from(text); which allocates
string_from ==
    /\ hpc = "new"
    /\ \/ owned_string' = StringFrom(text) /\ hpc' = "owned"
       \/ owned_string' = owned_string /\ hpc' = "aborted"
    /\ UNCHANGED <<ctl, out, length, r2v, r4v, r6v, r7v, r11v, text, radiusQ>>

\* let length = calculate_length(&owned_string);
call_calculate_length ==
    /\ hpc = "owned"
    /\ length' = calculate_length(owned_string)
    /\ hpc' = "measured"
    /\ UNCHANGED <<ctl, out, owned_string, r2v, r4v, r6v, r7v, r11v, text, radiusQ>>

\* println!("Length of '{}' is {}", owned_string, length);
use_after_call ==
    /\ hpc = "measured"
    /\ \E e \in Written(<<Line("Length of '{}' is {}", <<owned_string, length>>)>>) :
          /\ println(<<Line("Length of '{}' is {}", <<owned_string, length>>)>>, e)
          /\ hpc' = (IF e.how = "return" THEN "printed"
                     ELSE IF e.how \in Kills THEN "killed" ELSE "panicked")
    /\ UNCHANGED <<ctl, r1v, r2v, r4v, r6v, r7v, r11v, text, radiusQ>>

NextLength == string_from \/ call_calculate_length \/ use_after_call

SpecLength == InitLength /\ [][NextLength]_vars

(* --------------------------------------------- Circle::area, any radius *)
\* generics_and_traits' two statements on the Circle (and test_circle_area's)
\* with the radius left open: radiusQ quarters
Radii == (0 - MaxRadiusQ)..MaxRadiusQ

InitArea == ProgramInit /\ text = <<>> /\ radiusQ \in Radii /\ hpc = "new"

\* let circle = Circle { radius };
circle_new ==
    /\ hpc = "new"
    /\ circle' = [radius |-> F64FromInt(radiusQ, -2)]
    /\ hpc' = "built"
    /\ UNCHANGED <<ctl, out, r1v, area_val, r4v, r6v, r7v, r11v, text, radiusQ>>

\* circle.area()
call_area ==
    /\ hpc = "built"
    /\ area_val' = area(circle)
    /\ hpc' = "computed"
    /\ UNCHANGED <<ctl, out, r1v, circle, r4v, r6v, r7v, r11v, text, radiusQ>>

\* println!("Circle area: {:.2}", ...);
print_area ==
    /\ hpc = "computed"
    /\ \E e \in Written(<<Line("Circle area: {:.2}", <<F64Fixed2(area_val)>>)>>) :
          /\ println(<<Line("Circle area: {:.2}", <<F64Fixed2(area_val)>>)>>, e)
          /\ hpc' = (IF e.how = "return" THEN "printed"
                     ELSE IF e.how \in Kills THEN "killed" ELSE "panicked")
    /\ UNCHANGED <<ctl, r1v, r2v, r4v, r6v, r7v, r11v, text, radiusQ>>

NextArea == circle_new \/ call_area \/ print_area

SpecArea == InitArea /\ [][NextArea]_vars

(* ================================================================ claims *)
InSeq(x, q) == \E i \in DOMAIN q : q[i] = x

IsPrefix(a, b) == Len(a) <= Len(b) /\ \A i \in DOMAIN a : a[i] = b[i]

\* the lines of these formats that reached standard output whole
LinesOf(fmts) == {i \in DOMAIN out : out[i].whole /\ out[i].fmt \in fmts}

\* the parts of lines on standard output
Fragments == {i \in DOMAIN out : ~out[i].whole}

HasLine(fmt) == LinesOf({fmt}) # {}

HasLineWith(fmt, a) == \E i \in LinesOf({fmt}) : out[i].args = a

\* the order the specification lists the routines in
ListedOrder ==
    <<"ownership_and_borrowing", "generics_and_traits",
      "enums_and_pattern_matching", "error_handling",
      "iterators_and_closures", "async_runtime_demo",
      "multithreading_with_mutex", "smart_pointers_demo", "collections_demo",
      "macros_demo", "command_line_demo">>

InRoutine(name) == started # <<>> /\ started[Len(started)] = name
                   /\ Len(returned) < Len(started)

\* C1: whatever the interleaving of the 5 workers and main, the counter value
\* main reads and prints at the end of multithreading_with_mutex is exactly 5.
C1_FinalCounterIsFive ==
    /\ \A i \in LinesOf({"Counter value: {}"}) : out[i].args = <<5>>
    /\ pc = "r7_print" => counter = 5
    /\ Cardinality(LinesOf({"Counter value: {}"})) <= 1

C1_Witness ==
    /\ HasLineWith("Counter value: {}", <<5>>)
    /\ InSeq("multithreading_with_mutex", returned)

\* C2: at most one thread holds the counter's lock at any time; each worker
\* makes exactly one acquire / increment-by-1 / release cycle, and is holding
\* the lock at both the load and the store of its increment.
C2_MutualExclusion ==
    /\ Cardinality(holders) <= 1
    /\ holders \subseteq Workers \cup {MainThread}
    /\ MainThread \in holders <=> pc = "r7_print"
    /\ \A w \in Workers :
          /\ wpc[w] \in {"load", "store", "unlock"} <=> w \in holders
          /\ acquired[w] = (IF wpc[w] \in {"unspawned", "lock"} THEN 0 ELSE 1)
          /\ cycles[w] = (IF wpc[w] = "done" THEN 1 ELSE 0)
    /\ counter = Cardinality({w \in Workers : wpc[w] \in {"unlock", "done"}})

C2_Witness ==
    \E w, u \in Workers :
        /\ w \in holders /\ wpc[w] = "store"
        /\ wpc[u] = "lock"
        /\ \E v \in Workers : wpc[v] = "done" /\ cycles[v] = 1

\* C3: main takes the lock for its final read only after every one of the 5
\* workers has finished and been joined.
C3_ReadAfterAllJoined ==
    (pc \in {"r7_lock", "r7_print"} \/ MainThread \in holders
        \/ HasLine("Counter value: {}"))
    => /\ nJoined = 5
       /\ Len(handles) = 5
       /\ \A w \in Workers : wpc[w] = "done"

C3_Witness ==
    /\ pc = "r7_print" /\ MainThread \in holders
    /\ \A w \in Workers : wpc[w] = "done"

\* C4: main runs the eleven routines in the listed order, none twice, none
\* passed over, and a routine starts only once the one before it has returned
\* with its threads, task, runtime and lock gone; when main returns all eleven
\* have run.
C4_ListedOrder ==
    /\ IsPrefix(started, ListedOrder)
    /\ IsPrefix(returned, started)
    /\ Len(started) <= Len(returned) + 1
    /\ pc \in {"start", "main"} => Len(started) = Len(returned)
    /\ status = "exited" => returned = ListedOrder
    /\ ~InRoutine("async_runtime_demo") =>
          /\ rt \in {"none", "dropped"}
          /\ task \in {"none", "finished"}
          /\ InSeq("async_runtime_demo", returned) <=> rt = "dropped"
    /\ ~InRoutine("multithreading_with_mutex") =>
          /\ holders = {}
          /\ \/ \A w \in Workers : wpc[w] = "unspawned"
             \/ /\ \A w \in Workers : wpc[w] = "done"
                /\ nJoined = 5
                /\ InSeq("multithreading_with_mutex", returned)

C4_Witness ==
    /\ status = "exited"
    /\ started = ListedOrder /\ returned = ListedOrder

MessagesOfRead == LinesOf({"File content: {}", "Error reading file: {}"})

\* read_to_string has returned
ReadDone == read_result.val # "not read"

\* a println! of the routine that is open panicked on the main thread
PrintPanicked == status = "panicked" /\ pc = "println"

\* SIGXFSZ killed the process in a println! of the routine that is open
PrintKilled == status = "killed" /\ pc = "println"

\* the process was aborted inside a routine run whole on the main thread
AllocAborted == status = "aborted" /\ pc = "alloc"

\* C5, as claimed: in error_handling, a failed read prints the error's
\* description and a successful one prints the contents; once the read has
\* returned, either way, exactly one of the two messages is printed, the
\* routine returns and iterators_and_closures comes next, the program not
\* terminating.
C5_ReadHandled ==
    ReadDone =>
        /\ InSeq("error_handling", returned)
        /\ Cardinality(MessagesOfRead) = 1

\* C5, amended: for both outcomes of the read (a failure to reserve memory
\* for the file's contents is a failed read like any other) the match takes
\* the arm of the outcome: the read itself never panics and never ends the
\* program, and the only message that can reach standard output is the one
\* of the outcome, the error's description after a failure and the contents
\* after a success, at most once.  The routine returns, with exactly that
\* one message printed and iterators_and_closures next, exactly when the
\* println! of the arm returns.  That println! can fail for either outcome
\* alike, and then the process ends inside the routine: by the panic of
\* println!, exit code 101, the message being absent from standard output,
\* on it in part or (flushed as the process exits) on it whole; or killed by
\* SIGXFSZ, standard output being a file at its size limit, the message
\* absent or in part; and formatting the description of an OS error can
\* find no memory, which aborts the process (SIGABRT), no message printed.
C5_ReadHandledByItsArm ==
    ReadDone =>
        /\ InSeq("error_handling", started)
        /\ pc # "r4_read"
        /\ \A i \in MessagesOfRead : out[i] = ReadOutcome(read_result)[1]
        /\ Cardinality(MessagesOfRead) <= 1
        /\ IF InSeq("error_handling", returned)
           THEN /\ Cardinality(MessagesOfRead) = 1
                /\ Len(started) = 4 =>
                      /\ status = "running" /\ pc = "main"
                      /\ ListedOrder[callIdx] = "iterators_and_closures"
                /\ Len(started) >= 5 => started[5] = "iterators_and_closures"
           ELSE /\ InRoutine("error_handling")
                /\ Fragments \subseteq {Len(out)}
                /\ \/ PrintPanicked /\ ExitCode = 101
                   \/ PrintKilled /\ ExitCode = 153 /\ MessagesOfRead = {}
                   \/ /\ AllocAborted /\ ExitCode = 134
                      /\ ~read_result.ok /\ read_result.val \in OsErrors
                      /\ MessagesOfRead = {} /\ Fragments = {}

C5_Witness ==
    /\ ~read_result.ok
    /\ HasLineWith("Error reading file: {}", <<"NotFound">>)
    /\ InSeq("iterators_and_closures", returned)

\* C6, as claimed: whatever fails, the failure is handled in its routine, all
\* eleven routines run to completion and the process exits with code 0.
C6_NoFailureTerminates ==
    /\ status \notin {"panicked", "aborted", "killed"}
    /\ status = "exited" => (ExitCode = 0 /\ returned = ListedOrder)

\* C6, amended: the failed file read of routine 4 (a failure to reserve
\* memory for the file's contents included) is the one failure handled in
\* its routine: it does not panic, its Err arm prints it.  The other failures
\* end the process where they happen, and what comes later does not run.
\* With exit code 101, by a panic of the main thread: a println! whose write
\* to standard output fails, in main, in any routine, or in the task of
\* routine 6 (whose panic handle.await.unwrap() raises again), the line
\* then being absent from standard output, on it in part, or, for a
\* println! on the main thread with arguments evaluated as the program
\* runs, possibly on it whole; a
\* failed Runtime::new in routine 6; a failed thread::spawn in routine 7; a
\* program name or argument that is not valid Unicode in routine 11.  Killed
\* by SIGXFSZ (status 153, no panic): a println! when standard output is a
\* file at its size limit, the line absent or in part.  Aborted by SIGABRT
\* (status 134): an allocation that finds no memory, other than that of the
\* file's contents, or a thread of routine 6 or 7 that cannot start.  Only
\* the last thing on standard output can be part of a line.  The process
\* exits with code 0 only with all eleven routines done and every line whole.
C6_OnlyFileReadHandled ==
    /\ (ReadDone /\ ~read_result.ok) =>
          /\ pc # "r4_read"
          /\ \/ InSeq("error_handling", returned)
             \/ /\ InRoutine("error_handling")
                /\ PrintPanicked \/ PrintKilled \/ AllocAborted
    /\ status \in {"running", "exited", "panicked", "aborted", "killed"}
    /\ status = "exited" =>
          (ExitCode = 0 /\ returned = ListedOrder /\ Fragments = {})
    /\ status = "running" => ExitCode = -1
    /\ Fragments \subseteq {Len(out)}
    /\ Fragments # {} =>
          \/ PrintPanicked
          \/ status = "killed"
          \/ task = "panicked" /\ pc = "r6_await"
    /\ status = "panicked" =>
          /\ ExitCode = 101
          /\ Len(returned) < Len(ListedOrder)
          /\ \/ pc = "println" /\ (started = <<>> \/ Len(returned) < Len(started))
             \/ InRoutine("async_runtime_demo") /\ pc = "r6_new" /\ rt = "none"
             \/ /\ InRoutine("async_runtime_demo")
                /\ pc = "r6_await" /\ task = "panicked"
             \/ /\ InRoutine("multithreading_with_mutex")
                /\ pc = "r7_spawn" /\ Len(handles) < 5
             \/ /\ InRoutine("command_line_demo")
                /\ pc = "r11_args" /\ ~ArgsDecodable(argv)
    /\ status = "killed" =>
          /\ ExitCode = 153
          /\ Len(returned) < Len(ListedOrder)
          /\ \/ pc = "println" /\ (started = <<>> \/ Len(returned) < Len(started))
             \/ /\ InRoutine("async_runtime_demo")
                /\ pc = "r6_await" /\ task \in {"spawned", "sleeping"}
    /\ status = "aborted" =>
          /\ ExitCode = 134
          /\ Len(returned) < Len(ListedOrder)
          /\ Fragments = {} \/ (task = "panicked" /\ pc = "r6_await")
          /\ \/ pc = "alloc" /\ (started = <<>> \/ Len(returned) < Len(started))
             \/ /\ InRoutine("async_runtime_demo")
                /\ pc \in {"r6_new", "r6_spawn", "r6_await"}
             \/ /\ InRoutine("multithreading_with_mutex")
                /\ pc \in {"r7_spawn", "r7_join"}

C6_Witness ==
    /\ status = "panicked"
    /\ InRoutine("async_runtime_demo")
    /\ ~read_result.ok /\ InSeq("error_handling", returned)

\* how many bytes UTF-8 takes for one scalar value
Utf8Width(cp) ==
    IF cp < 128 THEN 1 ELSE IF cp < 2048 THEN 2 ELSE IF cp < 65536 THEN 3 ELSE 4

RECURSIVE Utf8Bytes(_)
Utf8Bytes(t) == IF t = <<>> THEN 0 ELSE Utf8Width(Head(t)) + Utf8Bytes(Tail(t))

IsAscii(t) == \A i \in DOMAIN t : t[i] < 128

Measured == hpc \in {"measured", "printed"}

\* C7, as claimed: for every text, calculate_length returns the number of
\* characters of the text, and the String is unchanged after the call.
C7_LengthIsCharCount ==
    Measured => (length = Len(text) /\ owned_string = StringFrom(text))

\* C7, amended: for every text, calculate_length returns the number of bytes
\* of the String's UTF-8 encoding, which is the number of characters exactly
\* when every character is ASCII (4 for "Rust") and is larger otherwise; the
\* String is unchanged by the call and its owner still prints it afterwards.
C7_LengthIsByteCount ==
    Measured =>
        /\ length = Utf8Bytes(text)
        /\ length = Len(text) <=> IsAscii(text)
        /\ length >= Len(text)
        /\ text = RustText => length = 4
        /\ owned_string = StringFrom(text)
        /\ hpc = "printed" =>
              /\ Len(out) = 1
              /\ out[1].fmt = "Length of '{}' is {}"
              /\ out[1].args = <<StringFrom(text), Utf8Bytes(text)>>

C7_Witness ==
    /\ hpc = "printed"
    /\ ~IsAscii(text)
    /\ length > Len(text)
    /\ owned_string = StringFrom(text)

IsTaskLine(l) == l.whole /\ l.fmt \in {"Async task started...", "Async task finished!"}

TaskOutput == [i \in DOMAIN SelectSeq(out, IsTaskLine) |->
                  SelectSeq(out, IsTaskLine)[i].fmt]

\* C8: async_runtime_demo spawns exactly one task; the task prints its start
\* message, sleeps the fixed time, then prints its finish message; the caller
\* stays blocked until then, so the routine does not return, and routine 7
\* does not start, before the finish message.
C8_OneTaskAwaited ==
    /\ nTasks <= 1
    /\ task # "none" <=> nTasks = 1
    /\ task \in {"none", "spawned"} => TaskOutput = <<>>
    /\ task = "sleeping" =>
          /\ TaskOutput = <<"Async task started...">>
          /\ sleepLeft \in 0..SleepSecs
    /\ task = "finished" =>
          /\ TaskOutput = <<"Async task started...", "Async task finished!">>
          /\ sleepLeft = 0
    /\ task = "panicked" =>
          /\ IsPrefix(TaskOutput, <<"Async task started...">>)
          /\ TaskOutput # <<>> => sleepLeft = 0
    /\ task \in {"spawned", "sleeping", "panicked"} =>
          /\ InRoutine("async_runtime_demo")
          /\ pc = "r6_await"
    /\ InSeq("async_runtime_demo", returned) => task = "finished"
    /\ \A i \in LinesOf({"\n--- Multithreading with Mutex ---"}) :
          \E j \in LinesOf({"Async task finished!"}) : j < i

C8_Witness ==
    /\ task = "finished"
    /\ TaskOutput = <<"Async task started...", "Async task finished!">>
    /\ InSeq("multithreading_with_mutex", started)

\* the arguments after the program name
AfterName(av) == [i \in 1..(Len(av) - 1) |-> av[i + 1]]

EchoesArguments ==
    IF Len(argv) > 1
    THEN /\ Cardinality(LinesOf({"Arguments: {:?}"})) = 1
         /\ HasLineWith("Arguments: {:?}", <<AfterName(argv)>>)
         /\ ~HasLine("No arguments provided.")
    ELSE /\ Cardinality(LinesOf({"No arguments provided."})) = 1
         /\ ~HasLine("Arguments: {:?}")

\* the two lines command_line_demo chooses between
ArgumentLines == LinesOf({"Arguments: {:?}", "No arguments provided."})

\* env::args().collect() has come to its end, with a Vec or with a panic
ArgsRead == argv # <<>>

\* C9, as claimed: for every argument vector, command_line_demo prints
\* exactly the arguments after the program name, in order, when there is one,
\* and the fixed message when there is none.
C9_EchoesEveryVector ==
    ArgsRead => EchoesArguments

\* C9, amended: for every argument vector whose elements, the program name
\* included, are all valid Unicode, the arguments line command_line_demo
\* prints holds exactly the arguments after the program name, in their
\* order, none added or dropped, and is printed only when there is at least
\* one; the fixed message is printed only when the vector holds the program
\* name alone; never both, neither twice; and the routine returns only once
\* it has printed the one that applies.  When the program name or an
\* argument is not valid Unicode, env::args() panics: neither line is
\* printed, the routine does not return and the process ends with exit code
\* 101.  (A println! of the routine that fails to write ends the process in
\* the routine, as everywhere: C6.)
C9_EchoesUnicodeVectors ==
    /\ \A i \in LinesOf({"Arguments: {:?}"}) :
          Len(argv) > 1 /\ out[i].args = <<AfterName(argv)>>
    /\ HasLine("No arguments provided.") =>
          (Len(argv) = 1 /\ InSeq("command_line_demo", returned))
    /\ Cardinality(ArgumentLines) <= 1
    /\ ArgumentLines # {} => (ArgsDecodable(argv) /\ args = argv)
    /\ InSeq("command_line_demo", returned) =>
          /\ ArgsDecodable(argv)
          /\ args = argv
          /\ EchoesArguments
    /\ (ArgsRead /\ ~ArgsDecodable(argv)) =>
          /\ ArgumentLines = {} /\ Fragments = {}
          /\ InRoutine("command_line_demo")
          /\ status = "panicked" /\ pc = "r11_args" /\ ExitCode = 101
    /\ (InRoutine("command_line_demo") /\ ArgsDecodable(argv)) =>
          (PrintPanicked \/ PrintKilled \/ AllocAborted)

C9_Witness ==
    /\ InSeq("command_line_demo", returned)
    /\ Len(argv) = 3 /\ argv[2] # argv[3]
    /\ HasLineWith("Arguments: {:?}", <<<<argv[2], argv[3]>>>>)

BigAbsDiff(a, b) == IF BigCmp(a, b) >= 0 THEN BigSub(a, b) ELSE BigSub(b, a)

\* | x - num/den | <= (num/den) / 2^bits, for a non-negative f64 x
WithinRel(x, num, den, bits) ==
    LET up == IF x.e < 0 THEN 0 - x.e ELSE 0
        dn == IF x.e < 0 THEN 0 ELSE x.e
        a  == BigShl(BigMul(x.m, den), dn)
        b  == BigShl(num, up)
    IN  BigCmp(BigShl(BigAbsDiff(a, b), bits), b) <= 0

Computed == hpc \in {"computed", "printed"}

\* C10: for every radius r, Circle::area is PI * r * r with PI = 3.14159 (to
\* within the three roundings of the f64 evaluation, 2^-51 relative, far less
\* than the 8.4e-7 by which a more precise pi differs); radius 2.0 gives
\* exactly the f64 that the literal 12.56636 denotes, and radius 5.0 prints as
\* "78.54" at two decimals.
C10_AreaIsPiRSquared ==
    Computed =>
        /\ area_val.sign = 0
        /\ WithinRel(area_val,
                     BigMul(BigFromInt(314159), BigFromInt(radiusQ * radiusQ)),
                     BigFromInt(1600000), 51)
        /\ radiusQ = 8 => area_val = F64FromDecimal(1256636, 5)
        /\ (radiusQ = 20 /\ hpc = "printed") =>
              /\ out[1].fmt = "Circle area: {:.2}"
              /\ out[1].args = <<<<"7", "8", ".", "5", "4">>>>

C10_Witness ==
    /\ hpc = "printed" /\ radiusQ = 20
    /\ circle.radius = F64FromInt(5, 0)
    /\ out[1].args = <<<<"7", "8", ".", "5", "4">>>>
====
